---- MODULE Spec2Model ----
(***************************************************************************)
(* Topic resolution of the blog generator: the local schedule file read by *)
(* TopicManager (src/topic_manager.py), the remote sheet read by           *)
(* SheetsManager (src/sheets_manager.py), the HTTP endpoints of src/app.py *)
(* and the command-line flow of src/main.py.                               *)
(*                                                                         *)
(* A date string is the record [shape, sep, a, b, c]: shape "num3" is the  *)
(* text "a<sep>b<sep>c" of three decimal fields, "text" is a string with   *)
(* no digits, "empty" is the empty string and "nan" is a missing cell of   *)
(* the sheet.  A field stands for its decimal numeral: a value in          *)
(* 1000..9999 is a four-digit numeral, a value in 1..99 has one or two     *)
(* digits.  A calendar date is the tuple <<year, month, day>>.             *)
(*                                                                         *)
(* A line of the topics file is a sequence of tokens: a run of blanks, the *)
(* character '#', the character '|', a date string, or a word (text that   *)
(* holds none of the former).                                              *)
(***************************************************************************)
EXTENDS Integers, Sequences, FiniteSets, TLC

\* ------------------------------------------------------------------ bounds

\* Longest topics file (in lines) and longest sheet (in rows) drawn by Init.
MaxLen == 2

\* ------------------------------------------------------------ input values

Num3(sep, a, b, c) == [shape |-> "num3", sep |-> sep, a |-> a, b |-> b, c |-> c]
TextStr == [shape |-> "text", sep |-> "", a |-> 0, b |-> 0, c |-> 0]
EmptyStr == [shape |-> "empty", sep |-> "", a |-> 0, b |-> 0, c |-> 0]
NaN == [shape |-> "nan", sep |-> "", a |-> 0, b |-> 0, c |-> 0]

Jan1Iso == Num3("-", 2024, 1, 1)
Jan5Iso == Num3("-", 2024, 1, 5)
Jan5Slash == Num3("/", 2024, 1, 5)
Jan13Dmy == Num3("/", 13, 1, 2024)
Ambiguous == Num3("/", 3, 4, 2024)
Feb30 == Num3("/", 2, 30, 2024)

Jan1 == <<2024, 1, 1>>
Jan3 == <<2024, 1, 3>>
March4 == <<2024, 3, 4>>
April3 == <<2024, 4, 3>>

\* The dates the clock shows, and the dates a caller asks for explicitly.
Todays == { Jan1, Jan3 }
Targets == { March4, April3 }

\* The tokens of a line.
Sp == [t |-> "sp", text |-> " ", date |-> EmptyStr]
Hash == [t |-> "hash", text |-> "#", date |-> EmptyStr]
Bar == [t |-> "bar", text |-> "|", date |-> EmptyStr]
Word(w) == [t |-> "word", text |-> w, date |-> EmptyStr]
DateTok(d) == [t |-> "date", text |-> "", date |-> d]

\* The lines a topics file is made of: "date|topic" entries (either side
\* may be empty), a blank line, a line without separator.
\* Every entry line has a topic of its own, so a returned topic names the
\* line it came from.
EntryLine(d, t) ==
  (IF d = EmptyStr THEN <<>> ELSE <<DateTok(d)>>) \o <<Bar>>
    \o (IF t = "" THEN <<>> ELSE <<Word(t)>>)
BlankLine == <<>>
CommentLine == <<Hash, Sp, Word("note")>>
PlainLine(t) == <<Word(t)>>

\* "2024-01-01|A", "2024-01-01|B", "2024-01-05|C", "2024/01/05|D",
\* "03/04/2024|E", "13/01/2024|F", "02/30/2024|X", "TBD|Y", "|Z",
\* "2024-01-01|", "", "P".
Lines ==
  { EntryLine(Jan1Iso, "A"), EntryLine(Jan1Iso, "B"), EntryLine(Jan5Iso, "C"),
    EntryLine(Jan5Slash, "D"), EntryLine(Ambiguous, "E"),
    EntryLine(Jan13Dmy, "F"), EntryLine(Feb30, "X"), EntryLine(TextStr, "Y"),
    EntryLine(EmptyStr, "Z"), EntryLine(Jan1Iso, ""),
    BlankLine, PlainLine("P") }

\* The rows of a sheet: the Date cell, the Topic cell (missing, or its text
\* with the surrounding blanks stripped) and the Status cell.
Cell(t) == [nan |-> FALSE, text |-> t]
NoCell == [nan |-> TRUE, text |-> ""]
Row(d, c) == [date |-> d, topic |-> c, status |-> ""]

Rows ==
  { Row(Jan1Iso, Cell("A")), Row(Jan1Iso, Cell("B")), Row(Jan5Iso, Cell("C")),
    Row(Jan5Slash, Cell("D")), Row(Ambiguous, Cell("E")),
    Row(TextStr, Cell("Y")), Row(NaN, Cell("N")), Row(Jan1Iso, NoCell),
    Row(Jan5Iso, Cell("")) }

SeqsUpTo(S, n) == UNION { [1..k -> S] : k \in 0..n }

\* --------------------------------------------------------- calendar dates

NoDate == <<0, 0, 0>>

IsLeap(y) == (y % 4 = 0 /\ y % 100 # 0) \/ y % 400 = 0

DaysInMonth(y, m) ==
  IF m = 2 THEN (IF IsLeap(y) THEN 29 ELSE 28)
  ELSE IF m \in {4, 6, 9, 11} THEN 30 ELSE 31

\* date.__lt__ / __ge__: dates compare as (year, month, day).
DateLess(p, q) ==
  \/ p[1] < q[1]
  \/ p[1] = q[1] /\ p[2] < q[2]
  \/ p[1] = q[1] /\ p[2] = q[2] /\ p[3] < q[3]

DateGeq(p, q) == ~DateLess(p, q)

NextDay(p) ==
  IF p[3] < DaysInMonth(p[1], p[2]) THEN <<p[1], p[2], p[3] + 1>>
  ELSE IF p[2] < 12 THEN <<p[1], p[2] + 1, 1>>
  ELSE <<p[1] + 1, 1, 1>>

PrevDay(p) ==
  IF p[3] > 1 THEN <<p[1], p[2], p[3] - 1>>
  ELSE IF p[2] > 1 THEN <<p[1], p[2] - 1, DaysInMonth(p[1], p[2] - 1)>>
  ELSE <<p[1] - 1, 12, 31>>

\* ----------------------------------------------------------- date parsing

\* The list with the day-first notation tried before the month-first one.
FormatsDayFirst ==
  << [sep |-> "-", order |-> "Ymd"], [sep |-> "/", order |-> "dmY"],
     [sep |-> "/", order |-> "mdY"], [sep |-> "/", order |-> "Ymd"] >>

\* The format list of the for loops, in the order of the source.
Formats ==
  << [sep |-> "-", order |-> "Ymd"], [sep |-> "/", order |-> "mdY"],
     [sep |-> "/", order |-> "dmY"], [sep |-> "/", order |-> "Ymd"] >>

\* The directives' patterns: %Y is four digits, %m is 1..12, %d is 1..31.
IsY(n) == n \in 1000..9999
IsM(n) == n \in 1..12
IsD(n) == n \in 1..31

\* datetime.strptime(s, f).date(): the whole string must match the format's
\* separators and directives and name a day of the calendar; NoDate stands
\* for the ValueError raised otherwise.
strptime(s, f) ==
  LET y == IF f.order = "Ymd" THEN s.a ELSE s.c
      m == IF f.order = "Ymd" THEN s.b ELSE IF f.order = "mdY" THEN s.a ELSE s.b
      d == IF f.order = "Ymd" THEN s.c ELSE IF f.order = "mdY" THEN s.b ELSE s.a
  IN IF /\ s.shape = "num3"
        /\ s.sep = f.sep
        /\ IsY(y) /\ IsM(m) /\ IsD(d)
        /\ d <= DaysInMonth(y, m)
     THEN <<y, m, d>>
     ELSE NoDate

\* ------------------------------------------------------------ return values

None == [some |-> FALSE, topic |-> ""]
Some(t) == [some |-> TRUE, topic |-> t]

\* Python truth of an Optional[str]: None and '' are false.
Truthy(r) == r.some /\ r.topic # ""

\* list.sort(key=lambda x: x[0]): a stable sort by date (insertion of each
\* element after the elements that are not later than it).
RECURSIVE InsertByDate(_, _)
InsertByDate(sorted, x) ==
  IF sorted = <<>> THEN <<x>>
  ELSE IF DateLess(x.date, sorted[1].date) THEN <<x>> \o sorted
  ELSE <<sorted[1]>> \o InsertByDate(Tail(sorted), x)

\* A sort that is left out: the list stays in file order.
sort_by_date_left_out(xs) == xs

RECURSIVE sort_by_date(_)
sort_by_date(xs) ==
  IF xs = <<>> THEN <<>>
  ELSE InsertByDate(sort_by_date(SubSeq(xs, 1, Len(xs) - 1)), xs[Len(xs)])

\* ------------------------------------------------------------------- state

VARIABLES
  topicsFile,   \* the file topics_schedule.txt: [exists, readable, lines]
  csvUrl,       \* whether GOOGLE_SHEET_CSV_URL is set in the environment
  feed,         \* the rows of the published sheet
  utcToday,     \* datetime.utcnow().date()
  localToday,   \* date.today(), the date in the machine's timezone
  tm,           \* a TopicManager object: [topics]
  sm,           \* a SheetsManager object: [enabled]
  ret,          \* what the last call did and returned
  procs,        \* the command-line runs in progress: [pc, topics, index, error]
  environ,      \* which variables of the environment (.env) are set
  pipe          \* what the last run of the generation pipeline did

vars ==
  <<topicsFile, csvUrl, feed, utcToday, localToday, tm, sm, ret, procs,
    environ, pipe>>

\* -------------------------------------------------- TopicManager (pure part)

\* str.strip() of a line or of a part of it.
RECURSIVE lstrip(_)
lstrip(l) == IF l # <<>> /\ l[1].t = "sp" THEN lstrip(Tail(l)) ELSE l

RECURSIVE rstrip(_)
rstrip(l) ==
  IF l # <<>> /\ l[Len(l)].t = "sp" THEN rstrip(SubSeq(l, 1, Len(l) - 1))
  ELSE l

strip(l) == rstrip(lstrip(l))

\* The position of the first '|' of a line, 0 when it holds none.
RECURSIVE find_bar(_, _)
find_bar(l, i) ==
  IF i > Len(l) THEN 0
  ELSE IF l[i].t = "bar" THEN i
  ELSE find_bar(l, i + 1)

\* The characters of a date string and of a stretch of a line.
str(d) ==
  IF d.shape = "num3"
  THEN ToString(d.a) \o d.sep \o ToString(d.b) \o d.sep \o ToString(d.c)
  ELSE IF d.shape = "text" THEN "TBD"
  ELSE ""

RECURSIVE text_of(_)
text_of(l) ==
  IF l = <<>> THEN ""
  ELSE (IF l[1].t = "date" THEN str(l[1].date) ELSE l[1].text)
         \o text_of(Tail(l))

\* The date string a stretch of a line spells: a lone date string is
\* itself, nothing is the empty string, anything else is text that is not
\* a date.
date_str_of(l) ==
  IF l = <<>> THEN EmptyStr
  ELSE IF Len(l) = 1 /\ l[1].t = "date" THEN l[1].date
  ELSE TextStr

\* A loader that looks for '#' at the very start of the line as written.
RECURSIVE load_lines_unstripped(_, _)
load_lines_unstripped(lines, n) ==
  IF n > Len(lines) THEN <<>>
  ELSE LET line == strip(lines[n])
           bar == find_bar(line, 1)
       IN IF line = <<>> \/ lines[n][1].t = "hash"
          THEN load_lines_unstripped(lines, n + 1)
          ELSE IF bar # 0
               THEN << [date |-> date_str_of(strip(SubSeq(line, 1, bar - 1))),
                        topic |-> text_of(strip(SubSeq(line, bar + 1,
                                                       Len(line)))),
                        line |-> n] >>
                      \o load_lines_unstripped(lines, n + 1)
          ELSE load_lines_unstripped(lines, n + 1)

\* TopicManager._load_topics: no file gives []; otherwise each line is
\* stripped, a line that is then empty or starts with '#' is skipped, and a
\* line that holds '|' is split at the first one into the date and the
\* topic, each stripped.  Opening a file that cannot be read raises (see
\* open_raises); load_topics is the list built when it does not.
RECURSIVE load_lines(_, _)
load_lines(lines, n) ==
  IF n > Len(lines) THEN <<>>
  ELSE LET line == strip(lines[n])
           bar == find_bar(line, 1)
       IN IF line = <<>> \/ line[1].t = "hash" THEN load_lines(lines, n + 1)
          ELSE IF bar # 0
               THEN << [date |-> date_str_of(strip(SubSeq(line, 1, bar - 1))),
                        topic |-> text_of(strip(SubSeq(line, bar + 1,
                                                       Len(line)))),
                        line |-> n] >>
                      \o load_lines(lines, n + 1)
          ELSE load_lines(lines, n + 1)

load_topics(file) == IF ~file.exists THEN <<>> ELSE load_lines(file.lines, 1)

\* open() of a file that exists and cannot be read (no permission, or
\* bytes that are not UTF-8) raises; _load_topics has no handler for it.
open_raises(file) == file.exists /\ ~file.readable

\* The format loop of TopicManager.get_topic_for_date on one entry, from
\* format k on: a ValueError goes on to the next format, the first format
\* that parses either returns the entry (hit) or breaks.
\* The loop without its break: a date that is not the target goes on to
\* the next format.
RECURSIVE TM_match_loop_no_break(_, _, _)
TM_match_loop_no_break(s, target, k) ==
  IF k > Len(Formats) THEN [hit |-> FALSE, fmt |-> 0, date |-> NoDate]
  ELSE LET parsed_date == strptime(s, Formats[k])
           later == TM_match_loop_no_break(s, target, k + 1)
       IN IF parsed_date = NoDate THEN later
          ELSE IF parsed_date = target
               THEN [hit |-> TRUE, fmt |-> k, date |-> parsed_date]
          ELSE IF later.fmt # 0 THEN later
          ELSE [hit |-> FALSE, fmt |-> k, date |-> parsed_date]

RECURSIVE TM_match_loop(_, _, _)
TM_match_loop(s, target, k) ==
  IF k > Len(Formats) THEN [hit |-> FALSE, fmt |-> 0, date |-> NoDate]
  ELSE LET parsed_date == strptime(s, Formats[k])
       IN IF parsed_date = NoDate THEN TM_match_loop(s, target, k + 1)
          ELSE IF parsed_date = target
               THEN [hit |-> TRUE, fmt |-> k, date |-> parsed_date]
          ELSE [hit |-> FALSE, fmt |-> k, date |-> parsed_date]

\* A loop that does not return at the first match: the last match wins.
RECURSIVE TM_for_date_from_last(_, _, _, _)
TM_for_date_from_last(topics, target, i, used) ==
  IF i > Len(topics) THEN [result |-> None, used |-> used]
  ELSE LET r == TM_match_loop(topics[i].date, target, 1)
           u == Append(used, [fmt |-> r.fmt, date |-> r.date])
           rest == TM_for_date_from_last(topics, target, i + 1, u)
       IN IF r.hit /\ ~rest.result.some
          THEN [result |-> Some(topics[i].topic), used |-> u]
          ELSE rest

RECURSIVE TM_for_date_from(_, _, _, _)
TM_for_date_from(topics, target, i, used) ==
  IF i > Len(topics) THEN [result |-> None, used |-> used]
  ELSE LET r == TM_match_loop(topics[i].date, target, 1)
       IN IF r.hit
          THEN [result |-> Some(topics[i].topic),
                used |-> Append(used, [fmt |-> r.fmt, date |-> r.date])]
          ELSE TM_for_date_from(topics, target, i + 1,
                                Append(used, [fmt |-> r.fmt, date |-> r.date]))

\* TopicManager.get_topic_for_date with the target date resolved.
TM_get_topic_for_date(topics, target) ==
  IF topics = <<>> THEN [result |-> None, used |-> <<>>]
  ELSE TM_for_date_from(topics, target, 1, <<>>)

\* The format loop of TopicManager.get_next_available_topic on one entry.
RECURSIVE TM_future_loop(_, _, _)
TM_future_loop(s, today, k) ==
  IF k > Len(Formats) THEN [keep |-> FALSE, fmt |-> 0, date |-> NoDate]
  ELSE LET parsed_date == strptime(s, Formats[k])
       IN IF parsed_date = NoDate THEN TM_future_loop(s, today, k + 1)
          ELSE [keep |-> DateGeq(parsed_date, today), fmt |-> k,
                date |-> parsed_date]

RECURSIVE TM_future_topics(_, _, _)
TM_future_topics(topics, today, i) ==
  IF i > Len(topics) THEN <<>>
  ELSE LET r == TM_future_loop(topics[i].date, today, 1)
       IN (IF r.keep THEN << [date |-> r.date, topic |-> topics[i].topic] >>
           ELSE <<>>) \o TM_future_topics(topics, today, i + 1)

TM_future_used(topics, today) ==
  [i \in 1..Len(topics) |->
     LET r == TM_future_loop(topics[i].date, today, 1)
     IN [fmt |-> r.fmt, date |-> r.date]]

\* TopicManager.get_next_available_topic with today read from the clock.
TM_get_next_available_topic(topics, today) ==
  IF topics = <<>> THEN [result |-> None, used |-> <<>>, fused |-> <<>>]
  ELSE LET today_topic == TM_get_topic_for_date(topics, today)
           future_topics == sort_by_date(TM_future_topics(topics, today, 1))
       IN IF Truthy(today_topic.result)
          THEN [result |-> today_topic.result, used |-> today_topic.used,
                fused |-> <<>>]
          ELSE IF future_topics # <<>>
               THEN [result |-> Some(future_topics[1].topic),
                     used |-> today_topic.used,
                     fused |-> TM_future_used(topics, today)]
          ELSE [result |-> None, used |-> today_topic.used,
                fused |-> TM_future_used(topics, today)]

\* ------------------------------------------------- SheetsManager (pure part)

\* SheetsManager.get_topics on the outcome of pd.read_csv: a disabled
\* manager, a failed fetch (the except branch) and an empty sheet give [];
\* a row with a missing Date or Topic cell, or with a cell that strips to
\* the empty string, is left out.
RECURSIVE rows_to_topics(_, _)
rows_to_topics(rows, n) ==
  IF n > Len(rows) THEN <<>>
  ELSE IF rows[n].date.shape = "nan" \/ rows[n].topic.nan
       THEN rows_to_topics(rows, n + 1)
  ELSE IF rows[n].date.shape # "empty" /\ rows[n].topic.text # ""
       THEN << [date |-> rows[n].date, topic |-> rows[n].topic.text,
                status |-> rows[n].status, row |-> n + 1] >>
              \o rows_to_topics(rows, n + 1)
  ELSE rows_to_topics(rows, n + 1)

get_topics(enabled, fetched) ==
  IF ~enabled THEN <<>>
  ELSE IF ~fetched.ok THEN <<>>
  ELSE IF fetched.rows = <<>> THEN <<>>
  ELSE rows_to_topics(fetched.rows, 1)

\* The format loop of SheetsManager.get_topic_for_date on one entry.
RECURSIVE SM_match_loop(_, _, _)
SM_match_loop(s, target, k) ==
  IF k > Len(Formats) THEN [hit |-> FALSE, fmt |-> 0, date |-> NoDate]
  ELSE LET parsed_date == strptime(s, Formats[k])
       IN IF parsed_date = NoDate THEN SM_match_loop(s, target, k + 1)
          ELSE IF parsed_date = target
               THEN [hit |-> TRUE, fmt |-> k, date |-> parsed_date]
          ELSE [hit |-> FALSE, fmt |-> k, date |-> parsed_date]

RECURSIVE SM_for_date_from(_, _, _, _)
SM_for_date_from(topics, target, i, used) ==
  IF i > Len(topics) THEN [result |-> None, used |-> used]
  ELSE LET r == SM_match_loop(topics[i].date, target, 1)
       IN IF r.hit
          THEN [result |-> Some(topics[i].topic),
                used |-> Append(used, [fmt |-> r.fmt, date |-> r.date])]
          ELSE SM_for_date_from(topics, target, i + 1,
                                Append(used, [fmt |-> r.fmt, date |-> r.date]))

\* SheetsManager.get_topic_for_date on the topics its fetch returned.
SM_get_topic_for_date(topics, target) ==
  IF topics = <<>> THEN [result |-> None, used |-> <<>>]
  ELSE SM_for_date_from(topics, target, 1, <<>>)

\* The loop keeping only the dates after today.
RECURSIVE SM_future_loop_after_today(_, _, _)
SM_future_loop_after_today(s, today, k) ==
  IF k > Len(Formats) THEN [keep |-> FALSE, fmt |-> 0, date |-> NoDate]
  ELSE LET parsed_date == strptime(s, Formats[k])
       IN IF parsed_date = NoDate
          THEN SM_future_loop_after_today(s, today, k + 1)
          ELSE [keep |-> DateLess(today, parsed_date), fmt |-> k,
                date |-> parsed_date]

\* The format loop of SheetsManager.get_next_available_topic on one entry.
RECURSIVE SM_future_loop(_, _, _)
SM_future_loop(s, today, k) ==
  IF k > Len(Formats) THEN [keep |-> FALSE, fmt |-> 0, date |-> NoDate]
  ELSE LET parsed_date == strptime(s, Formats[k])
       IN IF parsed_date = NoDate THEN SM_future_loop(s, today, k + 1)
          ELSE [keep |-> DateGeq(parsed_date, today), fmt |-> k,
                date |-> parsed_date]

RECURSIVE SM_future_topics(_, _, _)
SM_future_topics(topics, today, i) ==
  IF i > Len(topics) THEN <<>>
  ELSE LET r == SM_future_loop(topics[i].date, today, 1)
       IN (IF r.keep THEN << [date |-> r.date, topic |-> topics[i].topic] >>
           ELSE <<>>) \o SM_future_topics(topics, today, i + 1)

SM_future_used(topics, today) ==
  [i \in 1..Len(topics) |->
     LET r == SM_future_loop(topics[i].date, today, 1)
     IN [fmt |-> r.fmt, date |-> r.date]]

\* SheetsManager.get_next_available_topic: topics is what its own fetch
\* returned, again what the fetch inside get_topic_for_date returned.
SM_get_next_available_topic(topics, again, today) ==
  IF topics = <<>> THEN [result |-> None, used |-> <<>>, fused |-> <<>>]
  ELSE LET today_topic == SM_get_topic_for_date(again, today)
           future_topics == sort_by_date(SM_future_topics(topics, today, 1))
       IN IF Truthy(today_topic.result)
          THEN [result |-> today_topic.result, used |-> today_topic.used,
                fused |-> <<>>]
          ELSE IF future_topics # <<>>
               THEN [result |-> Some(future_topics[1].topic),
                     used |-> today_topic.used,
                     fused |-> SM_future_used(topics, today)]
          ELSE [result |-> None, used |-> today_topic.used,
                fused |-> SM_future_used(topics, today)]

\* ------------------------------------------------------------------ actions

\* An environment with none of the keys set, and no pipeline run yet.
NoEnviron ==
  [OPENAI_API_KEY |-> FALSE, AWS_S3_BUCKET_NAME |-> FALSE,
   AWS_ACCESS_KEY_ID |-> FALSE, AWS_SECRET_ACCESS_KEY |-> FALSE,
   EMAIL_USER |-> FALSE, EMAIL_PASSWORD |-> FALSE]

NoPipe ==
  [op |-> "none", status |-> 0, raised |-> "", log |-> <<>>, calls |-> <<>>,
   s3_url |-> None, emails_sent |-> <<>>, delivered |-> {},
   given |-> <<>>, accepts |-> {}, s3_enabled |-> FALSE,
   email_enabled |-> FALSE, gen_ok |-> FALSE, pdf_ok |-> FALSE,
   has_topic |-> FALSE]


NoRet ==
  [op |-> "none", target |-> NoDate, today |-> NoDate, result |-> None,
   used |-> <<>>, fused |-> <<>>, list |-> <<>>, again |-> <<>>,
   fetch |-> <<>>, status |-> 0, error |-> "", k |-> 0]

\* Whether this call repeats the call made just before it (the same
\* operation with the same argument): 1 for a first call, 2 for a repeat.
InARow(op, given) == IF ret.op = op /\ ret.target = given THEN 2 ELSE 1

\* TopicManager.get_topic_for_date(target_date), or with no argument.
TMGetTopicForDate ==
  \E given \in Targets \cup {NoDate} :
    LET target_date == IF given = NoDate THEN utcToday ELSE given
        r == TM_get_topic_for_date(tm.topics, target_date)
    IN /\ ret' = [NoRet EXCEPT !.op = "tm_for_date", !.target = given,
                               !.today = target_date, !.result = r.result,
                               !.used = r.used,
                               !.k = InARow("tm_for_date", given)]
       /\ UNCHANGED <<topicsFile, csvUrl, feed, utcToday, localToday, tm, sm,
                      procs, environ, pipe>>

\* A query that takes the entry it examined first off the loaded list.
TMGetNextAvailableTopic_consuming ==
  LET today == utcToday
      r == TM_get_next_available_topic(tm.topics, today)
  IN /\ ret' = [NoRet EXCEPT !.op = "tm_next",
                             !.today = IF tm.topics = <<>> THEN NoDate
                                       ELSE today,
                             !.result = r.result, !.used = r.used,
                             !.fused = r.fused,
                             !.k = InARow("tm_next", NoDate)]
     /\ tm' = [topics |-> IF tm.topics = <<>> THEN <<>> ELSE Tail(tm.topics)]
     /\ UNCHANGED <<topicsFile, csvUrl, feed, utcToday, localToday, sm,
                    procs, environ, pipe>>

\* TopicManager.get_next_available_topic().
TMGetNextAvailableTopic ==
  LET today == utcToday
      r == TM_get_next_available_topic(tm.topics, today)
  IN /\ ret' = [NoRet EXCEPT !.op = "tm_next",
                             !.today = IF tm.topics = <<>> THEN NoDate
                                       ELSE today,
                             !.result = r.result, !.used = r.used,
                             !.fused = r.fused,
                             !.k = InARow("tm_next", NoDate)]
     /\ UNCHANGED <<topicsFile, csvUrl, feed, utcToday, localToday, tm, sm,
                    procs, environ, pipe>>

\* TopicManager.reset(): self.topics = self._load_topics(); when open()
\* raises, the exception leaves reset() and self.topics keeps its value.
TMReset ==
  /\ tm' = IF open_raises(topicsFile) THEN tm
           ELSE [topics |-> load_topics(topicsFile)]
  /\ ret' = [NoRet EXCEPT !.op = "tm_reset",
                          !.error = IF open_raises(topicsFile)
                                    THEN "open() raised" ELSE "",
                          !.k = 1]
  /\ UNCHANGED <<topicsFile, csvUrl, feed, utcToday, localToday, sm, procs,
                 environ, pipe>>

\* TopicManager.get_all_topics().
TMGetAllTopics ==
  /\ ret' = [NoRet EXCEPT !.op = "tm_all", !.list = tm.topics, !.k = 1]
  /\ UNCHANGED <<topicsFile, csvUrl, feed, utcToday, localToday, tm, sm, procs,
                 environ, pipe>>

\* A manager that fetches whether it is enabled or not.
Fetches_when_disabled(made) == {<<TRUE>>, <<FALSE>>}

\* The outcomes of one pd.read_csv: none when no fetch is made, else the
\* rows the sheet holds at that moment (TRUE) or an exception (FALSE).
Fetches(made) == IF made THEN {<<TRUE>>, <<FALSE>>} ELSE {<<>>}
Fetched(f, rows) == [ok |-> f # <<>> /\ f[1], rows |-> rows]

\* SheetsManager.get_topics().
SMGetTopics ==
  \E f \in Fetches(sm.enabled) :
    /\ ret' = [NoRet EXCEPT !.op = "sm_topics", !.fetch = f,
                            !.list = get_topics(sm.enabled, Fetched(f, feed)),
                            !.k = InARow("sm_topics", NoDate)]
    /\ UNCHANGED <<topicsFile, csvUrl, feed, utcToday, localToday, tm, sm,
                   procs, environ, pipe>>

\* SheetsManager.get_topic_for_date(target_date), or with no argument.
SMGetTopicForDate ==
  \E given \in Targets \cup {NoDate}, f \in Fetches(sm.enabled) :
    LET target_date == IF given = NoDate THEN localToday ELSE given
        topics == get_topics(sm.enabled, Fetched(f, feed))
        r == SM_get_topic_for_date(topics, target_date)
    IN /\ ret' = [NoRet EXCEPT !.op = "sm_for_date", !.target = given,
                               !.today = target_date, !.result = r.result,
                               !.used = r.used, !.fetch = f, !.list = topics,
                               !.k = InARow("sm_for_date", given)]
       /\ UNCHANGED <<topicsFile, csvUrl, feed, utcToday, localToday, tm, sm,
                      procs, environ, pipe>>

\* SheetsManager.get_next_available_topic(): the fetch inside
\* get_topic_for_date is made only when the first one returned topics.  The
\* first fetch reads the sheet as it is, the second one the sheet as it is
\* by then: one of the sheets in republished.
sm_get_next_available_topic(republished) ==
  \E f \in Fetches(sm.enabled) :
    LET topics == get_topics(sm.enabled, Fetched(f, feed))
    IN \E g \in Fetches(topics # <<>>),
          after \in (IF topics # <<>> THEN republished ELSE {feed}) :
         LET today == localToday
             again == get_topics(sm.enabled, Fetched(g, after))
             r == SM_get_next_available_topic(topics, again, today)
         IN /\ ret' = [NoRet EXCEPT !.op = "sm_next",
                                    !.today = IF topics = <<>> THEN NoDate
                                              ELSE today,
                                    !.result = r.result, !.used = r.used,
                                    !.fused = r.fused, !.fetch = f \o g,
                                    !.list = topics, !.again = again,
                                    !.k = InARow("sm_next", NoDate)]
            /\ feed' = after
            /\ UNCHANGED <<topicsFile, csvUrl, utcToday, localToday, tm, sm,
                           procs, environ, pipe>>

\* The call while nobody edits the sheet.
SMGetNextAvailableTopic == sm_get_next_available_topic({feed})

\* GET /api/topics/today (app.get_today_topic): a fresh TopicManager, its
\* next available topic, 404 when that is None or '', 500 with the
\* exception's text when building the TopicManager raised.
get_today_topic(op) ==
  LET topic_manager == [topics |-> load_topics(topicsFile)]
      r == TM_get_next_available_topic(topic_manager.topics, utcToday)
  IN /\ ret' = IF open_raises(topicsFile)
               THEN [NoRet EXCEPT !.op = op, !.status = 500,
                                  !.error = "open() raised", !.k = 1]
               ELSE IF ~Truthy(r.result)
               THEN [NoRet EXCEPT !.op = op, !.today = utcToday,
                                  !.status = 404,
                                  !.error = "No topics available", !.k = 1]
               ELSE [NoRet EXCEPT !.op = op, !.today = utcToday,
                                  !.status = 200, !.result = r.result,
                                  !.k = 1]
     /\ UNCHANGED <<topicsFile, csvUrl, feed, utcToday, localToday, tm, sm,
                    procs, environ, pipe>>

ApiTopicsToday == get_today_topic("api_today")

\* GET /api/topics/next (app.get_next_topic) calls get_today_topic().
ApiTopicsNext == get_today_topic("api_next")

\* The methods class TopicManager defines.
TopicManagerMethods ==
  { "__init__", "_load_topics", "get_topic_for_date",
    "get_next_available_topic", "get_all_topics", "reset" }

\* Most command-line runs in a row that a behaviour follows.
MaxCalls == 3

\* main() of main.py run without a prompt argument: it builds a
\* TopicManager and calls get_next_topic() on it outside any try block; the
\* class defines no such method, so the call raises AttributeError and the
\* interpreter ends the process with a traceback and exit status 1 (as it
\* does when building the TopicManager raised).  k counts the runs made one
\* after the other.
MainNoPrompt ==
  LET k == IF ret.op = "main" THEN ret.k + 1 ELSE 1
  IN /\ k <= MaxCalls
     /\ "get_next_topic" \notin TopicManagerMethods
     /\ ret' = [NoRet EXCEPT !.op = "main", !.status = 1,
                             !.error = IF open_raises(topicsFile)
                                       THEN "open() raised"
                                       ELSE "AttributeError",
                             !.k = k]
     /\ UNCHANGED <<topicsFile, csvUrl, feed, utcToday, localToday, tm, sm,
                    procs, environ, pipe>>

\* Two command-line runs started at the same time, each a process of its
\* own: a run first builds its TopicManager, then calls get_next_topic().
NumProcs == 2
Procs == 1..NumProcs

Idle == [pc |-> "start", topics |-> <<>>, index |-> -1, error |-> ""]

MainBuild(p) ==
  /\ procs[p].pc = "start"
  /\ procs' = IF open_raises(topicsFile)
              THEN [procs EXCEPT ![p].pc = "exited",
                                 ![p].error = "open() raised"]
              ELSE [procs EXCEPT ![p].pc = "built",
                                 ![p].topics = load_topics(topicsFile)]
  /\ UNCHANGED <<topicsFile, csvUrl, feed, utcToday, localToday, tm, sm, ret,
                 environ, pipe>>

MainGetNextTopic(p) ==
  /\ procs[p].pc = "built"
  /\ "get_next_topic" \notin TopicManagerMethods
  /\ procs' = [procs EXCEPT ![p].pc = "exited",
                            ![p].error = "AttributeError"]
  /\ UNCHANGED <<topicsFile, csvUrl, feed, utcToday, localToday, tm, sm, ret,
                 environ, pipe>>

\* ------------------------------------------------------ generation pipeline

\* Longest list of recipients (of a request, or of email_list.txt).
MaxRcpt == 2

Recipients == {"a@x", "b@x"}

\* What the storage client does with an upload.
UploadOutcomes == {"ok", "NoCredentialsError", "ClientError", "Exception"}

S3Url == Some("https://bucket.s3.region.amazonaws.com/key")

Step(name, to) == [step |-> name, to |-> to]

\* S3Handler.__init__: enabled is all([bucket, access key, secret key]);
\* without it no client is built; a boto3.client() that raises disables the
\* handler as well.
S3Handler(env, client_ok) ==
  LET enabled == /\ env.AWS_S3_BUCKET_NAME
                 /\ env.AWS_ACCESS_KEY_ID
                 /\ env.AWS_SECRET_ACCESS_KEY
  IN IF ~enabled THEN [enabled |-> FALSE, s3_client |-> FALSE]
     ELSE IF client_ok THEN [enabled |-> TRUE, s3_client |-> TRUE]
     ELSE [enabled |-> FALSE, s3_client |-> FALSE]

\* An upload that asks the client whether the handler is enabled or not.
upload_file_unguarded(s3, exists, outcome) ==
  IF ~exists THEN [result |-> None, calls |-> <<>>, raised |-> ""]
  ELSE [result |-> IF s3.enabled /\ outcome = "ok" THEN S3Url ELSE None,
        calls |-> <<"upload_file">>, raised |-> ""]

\* S3Handler.upload_file: None when disabled or when the file is missing,
\* else the client is called; each of its exceptions is caught and gives
\* None, success gives the URL.
upload_file(s3, exists, outcome) ==
  IF ~s3.enabled THEN [result |-> None, calls |-> <<>>, raised |-> ""]
  ELSE IF ~exists THEN [result |-> None, calls |-> <<>>, raised |-> ""]
  ELSE [result |-> IF outcome = "ok" THEN S3Url ELSE None,
        calls |-> <<"upload_file">>, raised |-> ""]

\* BlogGenerator.__init__: ValueError without OPENAI_API_KEY; the mail
\* settings (server and port have defaults) and the S3Handler.
BlogGenerator(env, client_ok) ==
  IF ~env.OPENAI_API_KEY
  THEN [raised |-> "ValueError", email_enabled |-> FALSE,
        s3_handler |-> [enabled |-> FALSE, s3_client |-> FALSE]]
  ELSE [raised |-> "", email_enabled |-> env.EMAIL_USER /\ env.EMAIL_PASSWORD,
        s3_handler |-> S3Handler(env, client_ok)]

\* The parameters of send_email that a caller may pass by keyword.
SendEmailParameters == {"recipient", "pdf_path", "subject"}

\* BlogGenerator.send_email called with the given keyword arguments: a
\* keyword that is no parameter raises TypeError before the body runs;
\* RuntimeError when mail is disabled; any failure while building or
\* sending the message is caught and printed, and the call returns.
send_email(generator, keywords, recipient, accepts) ==
  IF ~(keywords \subseteq SendEmailParameters)
  THEN [raised |-> "TypeError", delivered |-> FALSE]
  ELSE IF ~generator.email_enabled
  THEN [raised |-> "RuntimeError", delivered |-> FALSE]
  ELSE [raised |-> "", delivered |-> recipient \in accepts]

\* The loop of process over the addresses of email_list.txt.
RECURSIVE process_send(_, _, _, _)
process_send(generator, emails, i, accepts) ==
  IF i > Len(emails) THEN [raised |-> "", log |-> <<>>, delivered |-> {}]
  ELSE LET r == send_email(generator, {"subject"}, emails[i], accepts)
           rest == process_send(generator, emails, i + 1, accepts)
       IN IF r.raised # ""
          THEN [raised |-> r.raised, log |-> <<Step("send", emails[i])>>,
                delivered |-> {}]
          ELSE [raised |-> rest.raised,
                log |-> <<Step("send", emails[i])>> \o rest.log,
                delivered |-> (IF r.delivered THEN {emails[i]} ELSE {})
                                \cup rest.delivered]

\* A process that uploads before it renders.
process_upload_first(generator, inp, emails) ==
  LET s3 == generator.s3_handler
      up == upload_file(s3, FALSE, inp.upload)
      early == <<Step("generate", "")>>
                 \o (IF s3.enabled THEN <<Step("upload", "")>> ELSE <<>>)
  IN [NoPipe EXCEPT !.op = "process",
                    !.raised = IF inp.gen_ok /\ inp.pdf_ok THEN ""
                               ELSE "Exception",
                    !.log = early \o (IF inp.gen_ok
                                      THEN <<Step("render", "")>> ELSE <<>>),
                    !.calls = up.calls, !.s3_url = up.result]

\* BlogGenerator.process: generate, render, upload when the handler is
\* enabled, then mail each address of the list when mail is enabled; an
\* exception of generate_blog_article or create_pdf leaves process.
process(generator, inp, emails) ==
  LET s3 == generator.s3_handler
      up == IF s3.enabled THEN upload_file(s3, TRUE, inp.upload)
            ELSE [result |-> None, calls |-> <<>>, raised |-> ""]
      made == <<Step("generate", ""), Step("render", "")>>
                \o (IF s3.enabled THEN <<Step("upload", "")>> ELSE <<>>)
      sent == IF generator.email_enabled /\ emails # <<>>
              THEN process_send(generator, emails, 1, inp.accepts)
              ELSE [raised |-> "", log |-> <<>>, delivered |-> {}]
  IN IF ~inp.gen_ok
     THEN [NoPipe EXCEPT !.op = "process", !.raised = "Exception",
                         !.log = <<Step("generate", "")>>]
     ELSE IF ~inp.pdf_ok
     THEN [NoPipe EXCEPT !.op = "process", !.raised = "Exception",
                         !.log = <<Step("generate", ""), Step("render", "")>>]
     ELSE [NoPipe EXCEPT !.op = "process", !.raised = sent.raised,
                         !.log = made \o sent.log, !.calls = up.calls,
                         !.s3_url = up.result, !.delivered = sent.delivered]

\* The loop of generate_blog over email_list: send_email is called with
\* subject= and s3_url=, the address is appended when the call returns and
\* skipped when it raises.
RECURSIVE generate_blog_send(_, _, _, _)
generate_blog_send(generator, email_list, i, accepts) ==
  IF i > Len(email_list)
  THEN [log |-> <<>>, emails_sent |-> <<>>, delivered |-> {}]
  ELSE LET email == email_list[i]
           r == send_email(generator, {"subject", "s3_url"}, email, accepts)
           rest == generate_blog_send(generator, email_list, i + 1, accepts)
       IN [log |-> <<Step("send", email)>> \o rest.log,
           emails_sent |-> (IF r.raised = "" THEN <<email>> ELSE <<>>)
                             \o rest.emails_sent,
           delivered |-> (IF r.delivered THEN {email} ELSE {})
                           \cup rest.delivered]

\* The JSON bodies of a request: null, or an object with some of the keys.
Body(keys, email_list) == [null |-> FALSE, keys |-> keys, email_list |-> email_list]
NullBody == [null |-> TRUE, keys |-> {}, email_list |-> <<>>]

\* POST /api/generate (app.generate_blog): 400 when the body is empty or
\* has no 'topic'; then a BlogGenerator, generate, render, upload when the
\* handler is enabled, mail when a list is given and mail is enabled; 200,
\* or 500 with the text of whatever exception was raised on the way.
generate_blog(data, env, inp) ==
  LET generator == BlogGenerator(env, inp.client_ok)
      s3 == generator.s3_handler
      up == IF s3.enabled THEN upload_file(s3, TRUE, inp.upload)
            ELSE [result |-> None, calls |-> <<>>, raised |-> ""]
      made == <<Step("generate", ""), Step("render", "")>>
                \o (IF s3.enabled THEN <<Step("upload", "")>> ELSE <<>>)
      email_list == IF "email_list" \in data.keys THEN data.email_list
                    ELSE <<>>
      sent == IF email_list # <<>> /\ generator.email_enabled
              THEN generate_blog_send(generator, email_list, 1, inp.accepts)
              ELSE [log |-> <<>>, emails_sent |-> <<>>, delivered |-> {}]
  IN IF data.null \/ data.keys = {} \/ "topic" \notin data.keys
     THEN [NoPipe EXCEPT !.op = "api_generate", !.status = 400]
     ELSE IF generator.raised # ""
     THEN [NoPipe EXCEPT !.op = "api_generate", !.status = 500,
                         !.raised = generator.raised]
     ELSE IF ~inp.gen_ok
     THEN [NoPipe EXCEPT !.op = "api_generate", !.status = 500,
                         !.raised = "Exception",
                         !.log = <<Step("generate", "")>>]
     ELSE IF ~inp.pdf_ok
     THEN [NoPipe EXCEPT !.op = "api_generate", !.status = 500,
                         !.raised = "Exception",
                         !.log = <<Step("generate", ""), Step("render", "")>>]
     ELSE [NoPipe EXCEPT !.op = "api_generate", !.status = 200,
                         !.log = made \o sent.log, !.calls = up.calls,
                         !.s3_url = up.result,
                         !.emails_sent = sent.emails_sent,
                         !.delivered = sent.delivered]

\* What a run meets: whether boto3.client() works, whether the article is
\* generated and the document rendered, what the storage client does, and
\* which mailboxes the mail server delivers to.
RunInputs ==
  [client_ok : BOOLEAN, gen_ok : BOOLEAN, pdf_ok : BOOLEAN,
   upload : UploadOutcomes, accepts : SUBSET Recipients]

\* The same, drawn only as far as the run gets (started says whether it
\* gets past its first tests): a step that is not reached has the value
\* it has in Unmet, and only mailboxes of the list are told apart.
Unmet ==
  [client_ok |-> TRUE, gen_ok |-> FALSE, pdf_ok |-> FALSE, upload |-> "ok",
   accepts |-> {}]

RunInputsOf(env, started, emails) ==
  IF ~started \/ ~env.OPENAI_API_KEY THEN {Unmet}
  ELSE { inp \in RunInputs :
           LET generator == BlogGenerator(env, inp.client_ok)
           IN /\ (~S3Handler(env, TRUE).enabled) => inp.client_ok
              /\ ~inp.gen_ok => ~inp.pdf_ok
              /\ (~inp.pdf_ok \/ ~generator.s3_handler.enabled)
                   => inp.upload = "ok"
              /\ (~inp.pdf_ok \/ ~generator.email_enabled)
                   => inp.accepts = {}
              /\ inp.accepts \subseteq { emails[i] : i \in DOMAIN emails } }

Bodies ==
  {NullBody, Body({}, <<>>), Body({"audience"}, <<>>), Body({"topic"}, <<>>)}
    \cup { Body({"topic", "email_list"}, l) : l \in SeqsUpTo(Recipients, MaxRcpt) }
    \cup { Body({"email_list"}, <<r>>) : r \in Recipients }

\* What a run was given and met, kept next to what it did.
Noted(run, generator, data, emails, inp) ==
  [run EXCEPT !.given = emails, !.accepts = inp.accepts,
              !.s3_enabled = generator.s3_handler.enabled,
              !.email_enabled = generator.email_enabled,
              !.gen_ok = inp.gen_ok, !.pdf_ok = inp.pdf_ok,
              !.has_topic = "topic" \in data.keys]

ApiGenerate ==
  \E data \in Bodies :
   \E inp \in RunInputsOf(environ, "topic" \in data.keys, data.email_list) :
    /\ pipe' = Noted(generate_blog(data, environ, inp),
                     BlogGenerator(environ, inp.client_ok), data,
                     data.email_list, inp)
    /\ UNCHANGED <<topicsFile, csvUrl, feed, utcToday, localToday, tm, sm, ret,
                   procs, environ>>

\* BlogGenerator.process(prompt) on a generator that could be built.
Process ==
  \E emails \in SeqsUpTo(Recipients, MaxRcpt) :
   \E inp \in RunInputsOf(environ, TRUE, emails) :
    LET generator == BlogGenerator(environ, inp.client_ok)
    IN /\ generator.raised = ""
       /\ pipe' = Noted(process(generator, inp, emails), generator,
                        Body({"topic"}, <<>>), emails, inp)
       /\ UNCHANGED <<topicsFile, csvUrl, feed, utcToday, localToday, tm, sm,
                      ret, procs, environ>>

\* main() of main.py run with a prompt argument: the generator is built
\* and process is called inside try; any exception is printed and the
\* process exits with status 1.
MainWithPrompt ==
  \E emails \in SeqsUpTo(Recipients, MaxRcpt) :
   \E inp \in RunInputsOf(environ, TRUE, emails) :
    LET generator == BlogGenerator(environ, inp.client_ok)
        run == process(generator, inp, emails)
    IN /\ pipe' = IF generator.raised # ""
                  THEN [NoPipe EXCEPT !.op = "main", !.status = 1,
                                      !.raised = generator.raised,
                                      !.has_topic = TRUE]
                  ELSE Noted([run EXCEPT !.op = "main",
                                         !.status = IF run.raised # "" THEN 1
                                                    ELSE 0],
                             generator, Body({"topic"}, <<>>), emails, inp)
       /\ UNCHANGED <<topicsFile, csvUrl, feed, utcToday, localToday, tm, sm,
                      ret, procs, environ>>

\* S3Handler().upload_file(file_path) called on its own.
UploadFile ==
  \E client_ok \in BOOLEAN, exists \in BOOLEAN, outcome \in UploadOutcomes :
    LET s3 == S3Handler(environ, client_ok)
        up == upload_file(s3, exists, outcome)
    IN /\ pipe' = [NoPipe EXCEPT !.op = "upload_file", !.raised = up.raised,
                                 !.calls = up.calls, !.s3_url = up.result,
                                 !.s3_enabled = s3.enabled]
       /\ UNCHANGED <<topicsFile, csvUrl, feed, utcToday, localToday, tm, sm,
                      ret, procs, environ>>

\* ------------------------------------------------------------ specification

NoFile == [exists |-> FALSE, readable |-> FALSE, lines |-> <<>>]
FileOf(lines) == [exists |-> TRUE, readable |-> TRUE, lines |-> lines]

\* TopicManager.__init__ and SheetsManager.__init__.
NewTopicManager(file) == [topics |-> load_topics(file)]
NewSheetsManager(url) == [csv_url |-> url, enabled |-> url]

\* The inputs: only the local file; only the sheet, read in a timezone
\* whose date is the UTC date or a neighbour of it; a sheet that exists
\* while its URL is not configured; or one line and one row.
Inputs ==
  /\ utcToday \in Todays
  /\ \/ /\ topicsFile \in {NoFile} \cup { FileOf(l) : l \in SeqsUpTo(Lines, MaxLen) }
        /\ csvUrl = FALSE
        /\ feed = <<>>
        /\ localToday = utcToday
     \/ /\ topicsFile = NoFile
        /\ csvUrl = TRUE
        /\ feed \in SeqsUpTo(Rows, MaxLen)
        /\ localToday \in {PrevDay(utcToday), utcToday, NextDay(utcToday)}
     \/ /\ topicsFile = NoFile
        /\ csvUrl = FALSE
        /\ feed \in UNION { [1..m -> Rows] : m \in 1..(MaxLen - 1) }
        /\ localToday = utcToday
     \/ /\ topicsFile \in { FileOf(<<l>>) : l \in Lines }
        /\ csvUrl = TRUE
        /\ feed \in { <<r>> : r \in Rows }
        /\ localToday = utcToday

Init ==
  /\ Inputs
  /\ tm = NewTopicManager(topicsFile)
  /\ sm = NewSheetsManager(csvUrl)
  /\ ret = NoRet
  /\ procs = [p \in Procs |-> Idle]
  /\ environ = NoEnviron
  /\ pipe = NoPipe

Next ==
  \/ TMGetTopicForDate
  \/ TMGetNextAvailableTopic
  \/ TMReset
  \/ SMGetTopics
  \/ SMGetTopicForDate
  \/ SMGetNextAvailableTopic
  \/ ApiTopicsToday
  \/ ApiTopicsNext
  \/ MainNoPrompt

Spec == Init /\ [][Next]_vars

\* The concurrent command-line runs over a local topics file.
InitRace ==
  /\ utcToday \in Todays
  /\ localToday = utcToday
  /\ topicsFile \in {NoFile} \cup { FileOf(l) : l \in SeqsUpTo(Lines, MaxLen) }
  /\ csvUrl = FALSE
  /\ feed = <<>>
  /\ tm = NewTopicManager(topicsFile)
  /\ sm = NewSheetsManager(csvUrl)
  /\ ret = NoRet
  /\ procs = [p \in Procs |-> Idle]
  /\ environ = NoEnviron
  /\ pipe = NoPipe

NextRace == \E p \in Procs : MainBuild(p) \/ MainGetNextTopic(p)

SpecRace == InitRace /\ [][NextRace]_vars

\* The sources while they are edited: the topics file is rewritten or its
\* permissions are changed by its owner, the sheet is republished by its
\* editor, between two calls or between the two fetches of one call.
LiveLines ==
  { EntryLine(Jan1Iso, "A"), EntryLine(Jan1Iso, "B"), EntryLine(Jan5Iso, "C"),
    EntryLine(Jan1Iso, ""), PlainLine("P") }

LiveRows ==
  { Row(Jan1Iso, Cell("A")), Row(Jan1Iso, Cell("B")), Row(Jan5Iso, Cell("C")),
    Row(Jan5Slash, Cell("D")), Row(NaN, Cell("N")) }

LiveFiles == { FileOf(l) : l \in SeqsUpTo(LiveLines, MaxLen - 1) }
LiveFeeds == SeqsUpTo(LiveRows, MaxLen - 1)

\* An edit between two calls starts a new stretch of calls: ret, the record
\* of the last call, is cleared.
WriteTopicsFile ==
  /\ topicsFile.exists
  /\ topicsFile' \in LiveFiles
  /\ ret' = NoRet
  /\ UNCHANGED <<csvUrl, feed, utcToday, localToday, tm, sm, procs, environ,
                 pipe>>

ChmodTopicsFile ==
  /\ topicsFile.exists
  /\ topicsFile' = [topicsFile EXCEPT !.readable = ~@]
  /\ ret' = NoRet
  /\ UNCHANGED <<csvUrl, feed, utcToday, localToday, tm, sm, procs, environ,
                 pipe>>

RepublishSheet ==
  /\ csvUrl
  /\ feed' \in LiveFeeds
  /\ ret' = NoRet
  /\ UNCHANGED <<topicsFile, csvUrl, utcToday, localToday, tm, sm, procs,
                 environ, pipe>>

\* SheetsManager.get_next_available_topic() while the sheet is edited.
SMGetNextAvailableTopicLive == sm_get_next_available_topic(LiveFeeds)

InitLive ==
  /\ utcToday \in Todays
  /\ localToday = utcToday
  /\ \/ /\ topicsFile \in LiveFiles
        /\ csvUrl = FALSE
        /\ feed = <<>>
     \/ /\ topicsFile = NoFile
        /\ csvUrl = TRUE
        /\ feed \in LiveFeeds
  /\ tm = NewTopicManager(topicsFile)
  /\ sm = NewSheetsManager(csvUrl)
  /\ ret = NoRet
  /\ procs = [p \in Procs |-> Idle]
  /\ environ = NoEnviron
  /\ pipe = NoPipe

NextLive ==
  \/ WriteTopicsFile
  \/ ChmodTopicsFile
  \/ RepublishSheet
  \/ TMGetTopicForDate
  \/ TMGetNextAvailableTopic
  \/ TMReset
  \/ SMGetTopics
  \/ SMGetTopicForDate
  \/ SMGetNextAvailableTopicLive
  \/ ApiTopicsToday

SpecLive == InitLive /\ [][NextLive]_vars

\* The loader on lines as they are typed: blanks around the parts, a
\* comment after blanks, a comment that holds a separator, several
\* separators, a topic that starts with '#', a line of blanks, text before
\* the date.
\* "# note", " 2024-01-01 | G ", " #2024-01-01|H", "2024-01-05|I|J",
\* "2024-01-05|#K", " ", "L 2024-01-01|M", "|".
RawLines ==
  Lines \cup
  { CommentLine,
    <<Sp, DateTok(Jan1Iso), Sp, Bar, Sp, Word("G"), Sp>>,
    <<Sp, Hash, DateTok(Jan1Iso), Bar, Word("H")>>,
    <<DateTok(Jan5Iso), Bar, Word("I"), Bar, Word("J")>>,
    <<DateTok(Jan5Iso), Bar, Hash, Word("K")>>,
    <<Sp>>,
    <<Word("L"), Sp, DateTok(Jan1Iso), Bar, Word("M")>>,
    <<Bar>> }

InitLoad ==
  /\ utcToday = Jan1
  /\ localToday = utcToday
  /\ topicsFile \in {NoFile} \cup { FileOf(l) : l \in SeqsUpTo(RawLines, MaxLen) }
  /\ csvUrl = FALSE
  /\ feed = <<>>
  /\ tm = NewTopicManager(topicsFile)
  /\ sm = NewSheetsManager(csvUrl)
  /\ ret = NoRet
  /\ procs = [p \in Procs |-> Idle]
  /\ environ = NoEnviron
  /\ pipe = NoPipe

NextLoad == TMReset \/ TMGetAllTopics

SpecLoad == InitLoad /\ [][NextLoad]_vars

\* The environments a run starts in: the key of the generator, the three
\* storage credentials (all, none, or the secret missing) and the two mail
\* credentials (both, none, or the password missing).
Environs ==
  { [OPENAI_API_KEY |-> k, AWS_S3_BUCKET_NAME |-> a[1],
     AWS_ACCESS_KEY_ID |-> a[1], AWS_SECRET_ACCESS_KEY |-> a[2],
     EMAIL_USER |-> e[1], EMAIL_PASSWORD |-> e[2]] :
      k \in BOOLEAN,
      a \in {<<TRUE, TRUE>>, <<TRUE, FALSE>>, <<FALSE, FALSE>>},
      e \in {<<TRUE, TRUE>>, <<TRUE, FALSE>>, <<FALSE, FALSE>>} }

InitPipe ==
  /\ utcToday = Jan1
  /\ localToday = utcToday
  /\ topicsFile = NoFile
  /\ csvUrl = FALSE
  /\ feed = <<>>
  /\ tm = NewTopicManager(topicsFile)
  /\ sm = NewSheetsManager(csvUrl)
  /\ ret = NoRet
  /\ procs = [p \in Procs |-> Idle]
  /\ environ \in Environs
  /\ pipe = NoPipe

NextPipe == ApiGenerate \/ Process \/ MainWithPrompt \/ UploadFile

SpecPipe == InitPipe /\ [][NextPipe]_vars

\* ------------------------------------------------------------------ claims

\* The four notations in the order the specification lists them:
\* YYYY-MM-DD, MM/DD/YYYY, DD/MM/YYYY, YYYY/MM/DD.
Notations ==
  << [sep |-> "-", order |-> "Ymd"], [sep |-> "/", order |-> "mdY"],
     [sep |-> "/", order |-> "dmY"], [sep |-> "/", order |-> "Ymd"] >>

Min(S) == CHOOSE x \in S : \A y \in S : x <= y

\* The first notation a date string is valid in (0: none), and the date it
\* then names.
FirstValid(s) ==
  LET valid == { k \in DOMAIN Notations : strptime(s, Notations[k]) # NoDate }
  IN IF valid = {} THEN 0 ELSE Min(valid)

DateOf(s) ==
  IF FirstValid(s) = 0 THEN NoDate ELSE strptime(s, Notations[FirstValid(s)])

\* The entries of a list that are dated d, and those dated d or later.
DatedAt(topics, d) == { i \in DOMAIN topics : DateOf(topics[i].date) = d }

FromDate(topics, d) ==
  { i \in DOMAIN topics :
      DateOf(topics[i].date) # NoDate /\ DateGeq(DateOf(topics[i].date), d) }

FirstMatch(topics, d) ==
  IF DatedAt(topics, d) = {} THEN None
  ELSE Some(topics[Min(DatedAt(topics, d))].topic)

\* The entry dated d or later that no other such entry precedes: none is
\* dated earlier, and none of the same date stands before it in the list.
EarliestFrom(topics, d) ==
  IF FromDate(topics, d) = {} THEN None
  ELSE LET best ==
             CHOOSE i \in FromDate(topics, d) :
               \A j \in FromDate(topics, d) :
                 \/ DateLess(DateOf(topics[i].date), DateOf(topics[j].date))
                 \/ /\ DateOf(topics[i].date) = DateOf(topics[j].date)
                    /\ i <= j
       IN Some(topics[best].topic)

\* C1: when no entry of the list is dated today, get_next_available_topic
\* returns the topic of the entry with the earliest date that is today or
\* later, the first in list order among entries of that date, and None when
\* there is no such entry; an entry with an unparseable or earlier date is
\* never the one returned.  Stated for TopicManager on its loaded topics
\* and for SheetsManager on the topics it fetched.
C1_EarliestFuture ==
  /\ (ret.op = "tm_next" /\ DatedAt(tm.topics, ret.today) = {})
       => ret.result = EarliestFrom(tm.topics, ret.today)
  /\ (ret.op = "sm_next" /\ DatedAt(ret.list, ret.today) = {}
        /\ DatedAt(ret.again, ret.today) = {})
       => ret.result = EarliestFrom(ret.list, ret.today)

\* Two entries of the same future date: "2024/01/05|D" before
\* "2024-01-05|C", asked on 2024-01-03, gives D.
C1_Witness ==
  /\ ret.op = "tm_next"
  /\ ret.today = Jan3
  /\ Len(tm.topics) = 2
  /\ tm.topics[1].date = Jan5Slash /\ tm.topics[2].date = Jan5Iso
  /\ ret.result = Some("D")

\* C2: get_topic_for_date returns the topic of the first entry in list
\* order whose date is the target date and None when there is none;
\* get_next_available_topic returns that entry's topic whenever there is
\* one for today.
C2_FirstMatch ==
  /\ ret.op = "tm_for_date" => ret.result = FirstMatch(tm.topics, ret.today)
  /\ ret.op = "sm_for_date" => ret.result = FirstMatch(ret.list, ret.today)
  /\ (ret.op = "tm_next" /\ DatedAt(tm.topics, ret.today) # {})
       => ret.result = FirstMatch(tm.topics, ret.today)
  /\ (ret.op = "sm_next" /\ DatedAt(ret.list, ret.today) # {})
       => ret.result = FirstMatch(ret.list, ret.today)

\* "2024-01-01|B" before "2024-01-01|A", asked on 2024-01-01, gives B.
C2_Witness ==
  /\ ret.op = "tm_for_date"
  /\ ret.target = NoDate
  /\ ret.today = Jan1
  /\ Len(tm.topics) = 2
  /\ tm.topics[1].topic = "B" /\ tm.topics[2].topic = "A"
  /\ tm.topics[1].date = Jan1Iso /\ tm.topics[2].date = Jan1Iso
  /\ ret.result = Some("B")

\* The dated resolution of a list on day d: the first entry dated d, else
\* the earliest entry dated later.
Dated(topics, d) ==
  IF FirstMatch(topics, d).some THEN FirstMatch(topics, d)
  ELSE EarliestFrom(topics, d)

\* What the sources hold: the valid rows of the configured sheet, the
\* entries of the topics file, and the rotation list (the lines of the file
\* that carry a topic and no date).
RemoteEntries == IF csvUrl THEN rows_to_topics(feed, 1) ELSE <<>>
LocalEntries == load_topics(topicsFile)
IsPlain(l) ==
  strip(l) # <<>> /\ strip(l)[1].t # "hash" /\ find_bar(strip(l), 1) = 0
PlainTopics == SelectSeq(topicsFile.lines, IsPlain)

\* The k-th pick of the rotation from a cursor that was never advanced.
Rotation(k) ==
  IF PlainTopics = <<>> THEN None
  ELSE Some(text_of(strip(PlainTopics[((k - 1) % Len(PlainTopics)) + 1])))

Combined(k) ==
  IF Dated(RemoteEntries, utcToday).some THEN Dated(RemoteEntries, utcToday)
  ELSE IF Dated(LocalEntries, utcToday).some THEN Dated(LocalEntries, utcToday)
  ELSE Rotation(k)

\* C3: the combined next-topic flow tries the remote dated source, then the
\* local dated source, then the rotation, and the first stage that yields a
\* topic decides: the endpoints answer with the remote topic when the sheet
\* yields one and with the local topic when only the file yields one, and
\* the k-th command-line run in a row gets the topic of the first stage
\* that yields one.
C3_FallbackOrder ==
  /\ (ret.op \in {"api_today", "api_next"}
        /\ Dated(RemoteEntries, utcToday).some)
       => ret.result = Dated(RemoteEntries, utcToday)
  /\ (ret.op \in {"api_today", "api_next"}
        /\ ~Dated(RemoteEntries, utcToday).some
        /\ Dated(LocalEntries, utcToday).some)
       => ret.result = Dated(LocalEntries, utcToday)
  /\ (ret.op = "main" /\ Combined(ret.k).some)
       => (ret.result = Combined(ret.k) /\ ret.error = "")

\* C4: with a non-empty rotation list of N topics, no dated source and a
\* cursor never advanced, the k-th command-line run in a row gets
\* topics[(k-1) mod N].
C4_Rotation ==
  (ret.op = "main" /\ ~csvUrl /\ LocalEntries = <<>> /\ PlainTopics # <<>>)
    => (ret.result = Rotation(ret.k) /\ ret.error = "")

\* C5: with no topics file and no sheet configured, every entry point
\* reports that there is no topic as a normal result: the queries return
\* None, the endpoints answer 404 'No topics available', the command-line
\* run prints 'No topics available' and exits; none ends in an exception.
C5_EmptyState ==
  (~topicsFile.exists /\ ~csvUrl) =>
    /\ ret.op \in {"tm_for_date", "tm_next", "sm_for_date", "sm_next"}
         => (ret.result = None /\ ret.error = "")
    /\ ret.op \in {"api_today", "api_next"}
         => (ret.status = 404 /\ ret.error = "No topics available")
    /\ ret.op = "main"
         => (ret.status = 1 /\ ret.error = "No topics available")

DatedOps == {"tm_for_date", "tm_next", "sm_for_date", "sm_next"}

\* C6: a dated query changes neither the topics file, the sheet nor the
\* loaded topic list, and a query that repeats the one before it (same
\* operation, same argument, same day, same fetch outcomes) returns the
\* same result.
C6_Idempotent ==
  [][ret'.op \in DatedOps =>
        /\ UNCHANGED <<topicsFile, feed, tm, sm>>
        /\ (ret'.k = 2 /\ ret'.today = ret.today /\ ret'.fetch = ret.fetch)
             => ret'.result = ret.result]_vars

\* A second get_next_available_topic in a row has returned a topic.
C6_Witness ==
  /\ ret.op = "tm_next"
  /\ ret.k = 2
  /\ ret.today = Jan3
  /\ ret.result = Some("C")

\* Every examined entry was read in the first notation it is valid in.
ReadInOrder(trace, topics) ==
  \A i \in DOMAIN trace :
    /\ trace[i].fmt = FirstValid(topics[i].date)
    /\ trace[i].date = DateOf(topics[i].date)

\* The returned topic is not that of an entry without a date.
NotDateless(topics) ==
  ret.result.some =>
    \A i \in DOMAIN topics :
      topics[i].topic = ret.result.topic => FirstValid(topics[i].date) # 0

\* C7: each entry's date string is read in the first of the notations
\* YYYY-MM-DD, MM/DD/YYYY, DD/MM/YYYY, YYYY/MM/DD it is valid in, also when
\* the date so read is not the target; an entry valid in none is skipped by
\* the today match and by the future search, and no error is raised.
C7_FormatOrder ==
  /\ ret.op \in {"tm_for_date", "tm_next"} =>
       /\ ReadInOrder(ret.used, tm.topics)
       /\ ReadInOrder(ret.fused, tm.topics)
       /\ NotDateless(tm.topics)
       /\ ret.error = ""
  /\ ret.op = "sm_for_date" =>
       /\ ReadInOrder(ret.used, ret.list)
       /\ NotDateless(ret.list)
       /\ ret.error = ""
  /\ ret.op = "sm_next" =>
       /\ ReadInOrder(ret.used, ret.again)
       /\ ReadInOrder(ret.fused, ret.list)
       /\ NotDateless(ret.list)
       /\ ret.error = ""

\* "02/30/2024|X" is skipped and "13/01/2024|F" is read as DD/MM/YYYY.
C7_Witness ==
  /\ ret.op = "tm_next"
  /\ ret.today = Jan3
  /\ Len(tm.topics) = 2
  /\ tm.topics[1].date = Feb30 /\ tm.topics[2].date = Jan13Dmy
  /\ ret.fused[1].fmt = 0 /\ ret.fused[2].fmt = 3
  /\ ret.result = Some("F")

\* get_topic_for_date has returned the entry whose date string is
\* "03/04/2024" (the entry it examined last).
AmbiguousMatched ==
  /\ ret.op \in {"tm_for_date", "sm_for_date"}
  /\ ret.result.some
  /\ LET topics == IF ret.op = "tm_for_date" THEN tm.topics ELSE ret.list
     IN topics[Len(ret.used)].date = Ambiguous

\* C8 as stated: "03/04/2024" is April 3, so an entry carrying it is
\* matched only for 2024-04-03.
C8_April3 == AmbiguousMatched => ret.today = April3

\* C8 as amended: "03/04/2024" is read as MM/DD/YYYY, which is March 4, so
\* an entry carrying it is matched only for 2024-03-04 and never for
\* 2024-04-03.
C8_March4 ==
  AmbiguousMatched =>
    /\ ret.today = March4
    /\ ret.used[Len(ret.used)] = [fmt |-> 2, date |-> March4]

\* get_topic_for_date(2024-03-04) has returned the topic of "03/04/2024|E".
C8_Witness ==
  /\ ret.op = "tm_for_date"
  /\ ret.target = March4
  /\ ret.result = Some("E")
  /\ AmbiguousMatched

\* C9: command-line runs racing on the rotation cursor are serialized: the
\* runs that have finished got the indices 0, 1, ... of the rotation list
\* in some order, each once, so none is handed out twice and none is lost.
C9_Serialized ==
  LET done == { p \in Procs : procs[p].pc = "exited" }
      N == Len(PlainTopics)
  IN (N > 0 /\ LocalEntries = <<>>) =>
       /\ \A p \in done : procs[p].error = ""
       /\ { procs[p].index : p \in done }
            = { (j - 1) % N : j \in 1..Cardinality(done) }
       /\ \A p, q \in done :
            (p # q /\ Cardinality(done) <= N)
              => procs[p].index # procs[q].index

\* C10: every today that a dated query reads from the clock is the UTC
\* date.
C10_SingleClock ==
  (/\ ret.op \in DatedOps
   /\ ret.target = NoDate
   /\ ret.today # NoDate)
    => ret.today = utcToday

\* C11: every entry a dated source holds or returns after loading has a
\* non-empty topic and a non-empty date (TopicManager.topics and the list
\* SheetsManager.get_topics builds), and no dated query returns the empty
\* string as a topic.
C11_LoadValidated ==
  /\ \A i \in DOMAIN tm.topics :
       tm.topics[i].topic # "" /\ tm.topics[i].date.shape # "empty"
  /\ ret.op \in {"sm_topics", "sm_for_date", "sm_next"} =>
       \A i \in DOMAIN ret.list :
         ret.list[i].topic # "" /\ ret.list[i].date.shape # "empty"
  /\ ret.op \in DatedOps => ret.result # Some("")

\* A step that is a call and no edit of a source.
NoEdit == UNCHANGED <<topicsFile, feed>>

\* A call whose result is the resolution of what its source holds at the
\* time of the call.
FreshStep ==
  /\ (NoEdit /\ ret'.op = "tm_for_date" /\ ~open_raises(topicsFile))
       => ret'.result
            = TM_get_topic_for_date(load_topics(topicsFile), ret'.today).result
  /\ (NoEdit /\ ret'.op = "tm_next" /\ ~open_raises(topicsFile))
       => ret'.result
            = TM_get_next_available_topic(load_topics(topicsFile),
                                          utcToday).result
  /\ (NoEdit /\ ret'.op = "sm_for_date" /\ ret'.fetch = <<TRUE>>)
       => ret'.result
            = SM_get_topic_for_date(rows_to_topics(feed, 1), ret'.today).result

\* C12: every dated query reads its source anew, so its result is the
\* resolution of what the source holds at the time of the call: a query on
\* a TopicManager answers from the topics file as it is now, a query on a
\* SheetsManager from the sheet as it is now.
C12_FreshReads == [][FreshStep]_vars

\* C13: a read that fails gives an empty list and no topic and raises
\* nothing: a failed fetch of the sheet gives [] and None, and loading the
\* topics file never ends in an exception (reset() returns, the endpoints
\* do not answer 500); the enabled flag of the sheet source stays what the
\* configuration made it.
C13_ReadFailure ==
  /\ (ret.op \in {"sm_topics", "sm_for_date"} /\ ret.fetch = <<FALSE>>)
       => (ret.list = <<>> /\ ret.result = None /\ ret.error = "")
  /\ (ret.op = "sm_next" /\ ret.fetch = <<FALSE>>)
       => (ret.list = <<>> /\ ret.result = None /\ ret.error = "")
  /\ ret.op = "tm_reset" => ret.error = ""
  /\ ret.op \in {"api_today", "api_next"} => ret.status # 500
  /\ sm.enabled = csvUrl

\* C18: whatever the two fetches of SheetsManager.get_next_available_topic
\* return (a failure, an empty sheet, two different sheets), the result is
\* the dated resolution of the first snapshot or that of the second one.
C18_OneSnapshot ==
  ret.op = "sm_next" =>
    \/ ret.result = Dated(ret.list, localToday)
    \/ ret.result = Dated(ret.again, localToday)

\* The sheet held "2024-01-05|C" at the first fetch and "2024-01-01|A" at
\* the second: asked on 2024-01-01 the call returns A, the resolution of
\* the second snapshot and not of the first.
C18_Witness ==
  /\ ret.op = "sm_next"
  /\ ret.fetch = <<TRUE, TRUE>>
  /\ localToday = Jan1
  /\ ret.list # <<>> /\ ret.again # <<>> /\ ret.list # ret.again
  /\ ret.result = Some("A")
  /\ Dated(ret.list, localToday) = Some("C")
  /\ Dated(ret.again, localToday) = Some("A")

\* C14: a SheetsManager built without its URL is disabled and stays so, and
\* each of its queries returns no topic at once: an empty list, None, no
\* fetch made and no error, whatever the sheet holds.
C14_Disabled ==
  /\ sm.enabled = csvUrl
  /\ sm.csv_url = csvUrl
  /\ (~csvUrl /\ ret.op \in {"sm_topics", "sm_for_date", "sm_next"})
       => /\ ret.list = <<>>
          /\ ret.result = None
          /\ ret.fetch = <<>>
          /\ ret.error = ""

\* The sheet holds rows, the URL is not configured, and
\* get_next_available_topic has returned None without a fetch.
C14_Witness ==
  /\ ~csvUrl
  /\ feed # <<>>
  /\ ret.op = "sm_next"
  /\ ret.fetch = <<>>
  /\ ret.result = None

Max(S) == CHOOSE x \in S : \A y \in S : x >= y

\* The characters of a stretch of a line that are not blanks, and the
\* stretch without the blanks before the first and after the last of them.
NonBlanks(l) == { i \in DOMAIN l : l[i].t # "sp" }
Trimmed(l) ==
  IF NonBlanks(l) = {} THEN <<>>
  ELSE SubSeq(l, Min(NonBlanks(l)), Max(NonBlanks(l)))

\* A line that carries an entry: not blank, its first non-blank character
\* is not '#', and it holds a '|'.
Bars(l) == { i \in DOMAIN l : l[i].t = "bar" }
CarriesEntry(l) ==
  /\ NonBlanks(l) # {}
  /\ l[Min(NonBlanks(l))].t # "hash"
  /\ Bars(l) # {}

\* The entry of such a line: the date before the first '|', the topic
\* after it, both trimmed.
EntryOf(l, n) ==
  [date |-> date_str_of(Trimmed(SubSeq(l, 1, Min(Bars(l)) - 1))),
   topic |-> text_of(Trimmed(SubSeq(l, Min(Bars(l)) + 1, Len(l)))),
   line |-> n]

\* One entry per such line, in the order of the file.
EntriesOf(lines) ==
  LET carrying == { n \in DOMAIN lines : CarriesEntry(lines[n]) }
      nth(k) == CHOOSE n \in carrying :
                  Cardinality({ m \in carrying : m < n }) = k - 1
  IN [k \in 1..Cardinality(carrying) |-> EntryOf(lines[nth(k)], nth(k))]

\* C15: the loaded list holds exactly one entry per line that is not
\* blank, does not start with '#' after leading blanks and holds '|', in
\* file order, with the date taken from before the first '|' and the topic
\* from after it; the other lines give no entry and no error.
C15_LineParsing ==
  /\ tm.topics = IF topicsFile.exists THEN EntriesOf(topicsFile.lines)
                 ELSE <<>>
  /\ ret.op = "tm_all" => ret.list = tm.topics
  /\ ret.op \in {"tm_reset", "tm_all"} => ret.error = ""

\* " #2024-01-01|H" then "2024-01-05|I|J": the comment gives nothing, the
\* second line gives the entry dated "2024-01-05" with the topic "I|J".
C15_Witness ==
  /\ ret.op = "tm_reset"
  /\ Len(topicsFile.lines) = 2
  /\ topicsFile.lines[1] = <<Sp, Hash, DateTok(Jan1Iso), Bar, Word("H")>>
  /\ tm.topics = << [date |-> Jan5Iso, topic |-> "I|J", line |-> 2] >>

\* The recipients of the given list that the mail server delivers to.
Accepted(r) == r \in pipe.accepts
Deliverable == SelectSeq(pipe.given, Accepted)

Steps(name) == { i \in DOMAIN pipe.log : pipe.log[i].step = name }

C17_UploadDisabled ==
  pipe.op # "none" =>
    /\ pipe.op = "upload_file" => pipe.raised = ""
    /\ pipe.s3_url \in {None, S3Url}
    /\ pipe.s3_url = S3Url => pipe.calls = <<"upload_file">>
    /\ (~(/\ environ.AWS_S3_BUCKET_NAME
           /\ environ.AWS_ACCESS_KEY_ID
           /\ environ.AWS_SECRET_ACCESS_KEY))
         => ~pipe.s3_enabled
    /\ ~pipe.s3_enabled => (pipe.s3_url = None /\ pipe.calls = <<>>)

\* The secret key is missing while the bucket and the access key are set:
\* upload_file has returned None and the client was not called.
C17_Witness ==
  /\ pipe.op = "upload_file"
  /\ environ.AWS_S3_BUCKET_NAME /\ environ.AWS_ACCESS_KEY_ID
  /\ ~environ.AWS_SECRET_ACCESS_KEY
  /\ pipe.s3_url = None
  /\ pipe.calls = <<>>
  /\ pipe.raised = ""

Before(name, i) == \E j \in Steps(name) : j < i

\* C19: in process, in main and in /api/generate the document is rendered
\* only after the article was generated, the upload is attempted only
\* after the rendering succeeded and only with storage enabled, and mail
\* is sent only after both succeeded; when generation or rendering fails
\* there is no upload and no mail and the caller is told (an exception
\* from process, exit status 1 from main, 500 from the endpoint); a
\* request without 'topic' gets 400 and none of the steps.
C19_PipelineOrder ==
  pipe.op \in {"api_generate", "process", "main"} =>
    /\ \A i \in Steps("render") : pipe.gen_ok /\ Before("generate", i)
    /\ \A i \in Steps("upload") :
         pipe.gen_ok /\ pipe.pdf_ok /\ pipe.s3_enabled /\ Before("render", i)
    /\ \A i \in Steps("send") :
         pipe.gen_ok /\ pipe.pdf_ok /\ Before("render", i)
    /\ pipe.calls # <<>> => Steps("upload") # {}
    /\ pipe.delivered # {} => Steps("send") # {}
    /\ (pipe.log # <<>> /\ ~(pipe.gen_ok /\ pipe.pdf_ok))
         => /\ Steps("upload") = {} /\ Steps("send") = {}
            /\ pipe.op = "process" => pipe.raised # ""
            /\ pipe.op = "main" => pipe.status = 1
            /\ pipe.op = "api_generate" => pipe.status = 500
    /\ (pipe.op = "api_generate" /\ ~pipe.has_topic)
         => (pipe.status = 400 /\ pipe.log = <<>>)

\* A request with a topic and a recipient, storage and mail enabled, whose
\* rendering failed: 500, and neither upload nor mail after the render.
C19_Witness ==
  /\ pipe.op = "api_generate"
  /\ pipe.has_topic /\ pipe.gen_ok /\ ~pipe.pdf_ok
  /\ pipe.s3_enabled /\ pipe.email_enabled
  /\ pipe.given # <<>>
  /\ pipe.status = 500
  /\ pipe.log = <<Step("generate", ""), Step("render", "")>>

====
